---- MODULE Spec2Model ----
(***************************************************************************)
(* Model of CopySvgTranslate/extraction/extractor.py : extract().          *)
(*                                                                         *)
(* Strings are sequences of one-character strings, so that strip(),        *)
(* lower(), split("-"), [-4:] and isdigit() are computed, not assumed.     *)
(* A dict that is iterated (translations["new"]) is an ordered sequence of *)
(* [key, val] records (Python dicts keep insertion order); the inner       *)
(* dicts are functions.  The XML document is read through lxml: each       *)
(* attribute or text the code reads is drawn from a small pool at the      *)
(* point where the code reads it (every piece is read once, except the     *)
(* systemLanguage attributes, which are kept in text_elements).  A local   *)
(* of a loop iteration is dead once the iteration ends (the code assigns   *)
(* it again before it reads it); it is put back to its initial value       *)
(* there, so that two states never differ by a value the code cannot read. *)
(***************************************************************************)
EXTENDS Integers, Sequences, FiniteSets, TLC

VARIABLES
    pc,                  \* position in extract()
    case_insensitive,    \* parameter of extract()
    file,                \* what the file system / parser said about the path
    ret,                 \* value returned by extract()
    exc,                 \* exception that escaped extract() ("" when none)
    nNodes,              \* switch, text and tspan elements met so far
    new,                 \* translations["new"]
    text_elements,       \* systemLanguage attribute of each text of the switch
    ti,                  \* position of `for text_elem in text_elements`
    tspans,              \* tspans of the default text element whose collection raised
    switch_translations,
    default_texts,
    default_sequence,
    processed_switches,
    system_lang,
    text_contents,
    tspans_to_id,
    idx                  \* position of `for idx, text in enumerate(..)`, from 1

vars == <<pc, case_insensitive, file, ret, exc, nNodes,
          new, text_elements, ti, tspans, switch_translations, default_texts, default_sequence,
          processed_switches, system_lang, text_contents, tspans_to_id, idx>>

----------------------------------------------------------------------------
(* Bounds of the explored documents *)
\* switch, text and tspan elements in the document
MaxNodes == 5

----------------------------------------------------------------------------
(* Python values *)

\* Python None (also: attribute absent, element without text)
None == <<"None">>

EmptyStr == <<>>

EmptyDict == <<>>

\* Python truthiness of an optional string
Truthy(s) == s # None /\ s # EmptyStr

Whitespace == {" ", "\t", "\n"}

Digits == {"0", "1", "2", "3", "4", "5", "6", "7", "8", "9"}

UpperCase == <<"A", "B", "C", "D", "E", "F", "G", "H", "I", "J", "K", "L", "M",
               "N", "O", "P", "Q", "R", "S", "T", "U", "V", "W", "X", "Y", "Z">>

LowerCase == <<"a", "b", "c", "d", "e", "f", "g", "h", "i", "j", "k", "l", "m",
               "n", "o", "p", "q", "r", "s", "t", "u", "v", "w", "x", "y", "z">>

LowerChar(c) ==
    IF \E i \in 1..Len(UpperCase) : UpperCase[i] = c
    THEN LowerCase[CHOOSE i \in 1..Len(UpperCase) : UpperCase[i] = c]
    ELSE c

\* str.lower()
Lower(s) == [i \in 1..Len(s) |-> LowerChar(s[i])]

RECURSIVE LStrip(_)
LStrip(s) ==
    IF s # <<>> /\ Head(s) \in Whitespace THEN LStrip(Tail(s)) ELSE s

RECURSIVE RStrip(_)
RStrip(s) ==
    IF s # <<>> /\ s[Len(s)] \in Whitespace
    THEN RStrip(SubSeq(s, 1, Len(s) - 1))
    ELSE s

\* str.strip()
Strip(s) == RStrip(LStrip(s))

\* s[-4:]
Last4(s) == IF Len(s) <= 4 THEN s ELSE SubSeq(s, Len(s) - 3, Len(s))

\* s[:-4]
DropLast4(s) == IF Len(s) <= 4 THEN <<>> ELSE SubSeq(s, 1, Len(s) - 4)

\* str.isdigit()
IsDigit(s) == s # <<>> /\ \A i \in 1..Len(s) : s[i] \in Digits

\* s.split("-")[0]
RECURSIVE SplitFirst(_)
SplitFirst(s) ==
    IF s = <<>> \/ Head(s) = "-" THEN <<>> ELSE <<Head(s)>> \o SplitFirst(Tail(s))

\* text_utils.normalize_text(text, case_insensitive=False)
normalize_text(text, ci) ==
    IF ~Truthy(text) THEN EmptyStr
    ELSE IF ci THEN Lower(Strip(text)) ELSE Strip(text)

\* dict.get(k) of an inner dict
DictGet(d, k) == IF k \in DOMAIN d THEN d[k] ELSE None

\* d[k] = v  /  d.update(e) of an inner dict
DictUpdate(d, e) == e @@ d

\* Python `a or b`
Or(a, b) == IF Truthy(a) THEN a ELSE b

\* keys of translations["new"]
Keys(d) == {d[i].key : i \in 1..Len(d)}

\* translations["new"][k]
Item(d, k) == d[CHOOSE i \in 1..Len(d) : d[i].key = k].val

\* translations["new"][k] = e
SetItem(d, k, e) ==
    [i \in 1..Len(d) |-> IF d[i].key = k THEN [key |-> k, val |-> e] ELSE d[i]]

\* a setdefault that assigns: translations["new"][k] = {}
SetDefault_Assign(d, k) ==
    IF k \in Keys(d)
    THEN SetItem(d, k, EmptyDict)
    ELSE Append(d, [key |-> k, val |-> EmptyDict])

\* translations["new"].setdefault(k, {})
SetDefault(d, k) ==
    IF k \in Keys(d) THEN d ELSE Append(d, [key |-> k, val |-> EmptyDict])

\* the literal "default_tspans_by_id"
DefaultTspansKey ==
    <<"d", "e", "f", "a", "u", "l", "t", "_", "t", "s", "p", "a", "n", "s", "_",
      "b", "y", "_", "i", "d">>

----------------------------------------------------------------------------
(* The documents explored: what lxml may hand to the code *)

Hi == <<"H", "i", " ">>
P2023 == <<"P", "2", "0", "2", "3">>
P2022 == <<"P", "2", "0", "2", "2">>

\* text of a text element (None: no text node)
TextPool == {None, <<" ">>, Hi, P2023, P2022, DefaultTspansKey}

\* text of a tspan
TspanTextPool == {None, <<" ">>, Hi, P2023}

\* id attribute of a tspan
IdPool == {None, <<"a">>, <<"A", "-", "f", "r">>}

\* systemLanguage attribute of a text element
LangPool == {None, <<"f", "r">>, <<"d", "e">>}

TspanPool == [id : IdPool, text : TspanTextPool]

SeqsUpTo(S, n) == UNION {[1..k -> S] : k \in 0..n}

----------------------------------------------------------------------------
(* Values returned by extract() *)

\* `return None` after "SVG file not found"
NotFoundResult == [type |-> "NoneType"]

\* a parse failure that returns the (empty) translations built so far
ParseErrorResult_Partial ==
    [type |-> "dict", keys |-> {"new"}, new |-> <<>>, title |-> EmptyDict]

\* `return None` after "Failed to parse SVG file"
ParseErrorResult == [type |-> "NoneType"]

\* a title loop that checks that the values end in digits, not in the key's year
TitleStep_AnyYear(title, key, mapping) ==
    IF key # EmptyStr /\ IsDigit(Last4(key))
    THEN LET year == Last4(key) IN
         IF key # year /\ \A l \in DOMAIN mapping : IsDigit(Last4(mapping[l]))
         THEN (DropLast4(key) :> [l \in DOMAIN mapping |-> DropLast4(mapping[l])])
              @@ title
         ELSE title
    ELSE title

\* one iteration of the loop that fills translations["title"]
TitleStep(title, key, mapping) ==
    IF key # EmptyStr /\ IsDigit(Last4(key))
    THEN LET year == Last4(key) IN
         IF key # year
            /\ \A l \in DOMAIN mapping :
                   IsDigit(Last4(mapping[l])) /\ Last4(mapping[l]) = year
         THEN (DropLast4(key) :> [l \in DOMAIN mapping |-> DropLast4(mapping[l])])
              @@ title
         ELSE title
    ELSE title

\* translations["title"] after the first n items of translations["new"]
RECURSIVE TitleOf(_, _)
TitleOf(d, n) ==
    IF n = 0 THEN EmptyDict
    ELSE TitleStep(TitleOf(d, n - 1), d[n].key, d[n].val)

\* the dictionary returned at the end of extract()
Result(d) ==
    [type  |-> "dict",
     keys  |-> IF d # <<>> THEN {"new", "title"} ELSE {"title"},
     new   |-> d,
     title |-> TitleOf(d, Len(d))]

----------------------------------------------------------------------------
(* Collecting the default text elements *)

\* {tspan.get('id'): tspan.text.strip() for tspan in tspans if tspan.text and tspan.get('id')}
RECURSIVE TspansById(_)
TspansById(ts) ==
    IF ts = <<>> THEN EmptyDict
    ELSE LET t == ts[Len(ts)]
             rest == TspansById(SubSeq(ts, 1, Len(ts) - 1))
         IN  IF Truthy(t.text) /\ Truthy(t.id)
             THEN (t.id :> Strip(t.text)) @@ rest
             ELSE rest

\* [tspan.text.strip() if tspan.text else "" for tspan in tspans]
TspanContents(ts) ==
    [i \in 1..Len(ts) |-> IF Truthy(ts[i].text) THEN Strip(ts[i].text) ELSE EmptyStr]

\* [text_elem.text.strip()] if text_elem.text else [""]
PlainContents(text) == IF Truthy(text) THEN <<Strip(text)>> ELSE <<EmptyStr>>

\* the entries appended to default_sequence for the tspans of a default text
RECURSIVE TspanRuns(_, _)
TspanRuns(ts, ci) ==
    IF ts = <<>> THEN <<>>
    ELSE LET t == Head(ts) IN
         IF ~Truthy(t.text) THEN TspanRuns(Tail(ts), ci)
         ELSE <<[id |-> t.id, text |-> Strip(t.text),
                 normalized |-> normalize_text(Strip(t.text), ci)]>>
              \o TspanRuns(Tail(ts), ci)

\* the entries appended to default_sequence for a default text without tspans
PlainRuns(text, ci) ==
    IF Truthy(text) /\ Strip(text) # EmptyStr
    THEN <<[id |-> None, text |-> Strip(text),
            normalized |-> normalize_text(Strip(text), ci)]>>
    ELSE <<>>

\* default_texts = [normalize_text(text, case_insensitive) for text in text_contents]
NormalizeAll(contents, ci) ==
    [i \in 1..Len(contents) |-> normalize_text(contents[i], ci)]

\* key = text.lower() if case_insensitive else text
SeedKey(text, ci) == IF ci THEN Lower(text) ELSE text

\* for text in default_texts: translations["new"].setdefault(key, {})
RECURSIVE Seed(_, _, _)
Seed(d, texts, ci) ==
    IF texts = <<>> THEN d
    ELSE Seed(SetDefault(d, SeedKey(Head(texts), ci)), Tail(texts), ci)

----------------------------------------------------------------------------
(* Resolving one run of a translated text element *)

\* {tspan.text.strip(): tspan.get('id') for tspan in tspans if tspan.text and tspan.text.strip() and tspan.get('id')}
RECURSIVE TspansToId(_)
TspansToId(ts) ==
    IF ts = <<>> THEN EmptyDict
    ELSE LET t == ts[Len(ts)]
             rest == TspansToId(SubSeq(ts, 1, Len(ts) - 1))
         IN  IF Truthy(t.text) /\ Strip(t.text) # EmptyStr /\ Truthy(t.id)
             THEN (Strip(t.text) :> t.id) @@ rest
             ELSE rest

\* base_id of the run `text` (None when its text has no identifier)
BaseId(t2id, text) ==
    LET stripped_text == IF Truthy(text) THEN Strip(text) ELSE EmptyStr
        id_value == DictGet(t2id, stripped_text)
    IN  IF Truthy(id_value) THEN Strip(SplitFirst(id_value)) ELSE None

\* translations["new"]["default_tspans_by_id"] raises KeyError
LookupRaises(d) == DefaultTspansKey \notin Keys(d)

\* english_text after the lookup by identifier
ById(d, base_id) ==
    IF Truthy(base_id)
    THEN Or(DictGet(Item(d, DefaultTspansKey), base_id),
            DictGet(Item(d, DefaultTspansKey), Lower(base_id)))
    ELSE None

\* english_text after the positional fallback
EnglishText(d, seq, base_id, i) ==
    IF ~Truthy(ById(d, base_id)) /\ i <= Len(seq)
    THEN seq[i].text
    ELSE ById(d, base_id)

\* store_key = english_text if english_text in translations["new"] else english_text.lower()
StoreKey(d, english_text) ==
    IF english_text \in Keys(d) THEN english_text ELSE Lower(english_text)

\* translations["new"] after the run
Store(d, english_text, lang, normalized_translation) ==
    IF ~Truthy(english_text) THEN d
    ELSE LET store_key == StoreKey(d, english_text) IN
         IF store_key \in Keys(d)
         THEN SetItem(d, store_key,
                      (lang :> normalized_translation) @@ Item(d, store_key))
         ELSE d

----------------------------------------------------------------------------
(* extract() *)

Init ==
    /\ pc = "start"
    /\ case_insensitive \in BOOLEAN
    /\ file = "unread"
    /\ ret = [type |-> "unset"]
    /\ exc = ""
    /\ nNodes = 0
    /\ new = <<>>
    /\ text_elements = <<>>
    /\ ti = 0
    /\ tspans = <<>>
    /\ switch_translations = EmptyDict
    /\ default_texts = <<>>
    /\ default_sequence = <<>>
    /\ processed_switches = 0
    /\ system_lang = None
    /\ text_contents = <<>>
    /\ tspans_to_id = EmptyDict
    /\ idx = 0

\* the path does not exist
NotFound ==
    /\ pc = "start"
    /\ file' = "missing"
    /\ ret' = NotFoundResult
    /\ pc' = "returned"
    /\ UNCHANGED <<case_insensitive, exc, nNodes, new, text_elements, ti,
                   tspans, switch_translations, default_texts, default_sequence,
                   processed_switches, system_lang, text_contents, tspans_to_id,
                   idx>>

\* etree.parse raises XMLSyntaxError or OSError
ParseFail ==
    /\ pc = "start"
    /\ file' = "malformed"
    /\ ret' = ParseErrorResult
    /\ pc' = "returned"
    /\ UNCHANGED <<case_insensitive, exc, nNodes, new, text_elements, ti,
                   tspans, switch_translations, default_texts, default_sequence,
                   processed_switches, system_lang, text_contents, tspans_to_id,
                   idx>>

\* the document parses; translations = {"new": {}}
ParseOk ==
    /\ pc = "start"
    /\ file' = "ok"
    /\ new' = <<>>
    /\ processed_switches' = 0
    /\ pc' = "switches"
    /\ UNCHANGED <<case_insensitive, ret, exc, nNodes, text_elements, ti,
                   tspans, switch_translations, default_texts, default_sequence,
                   system_lang, text_contents, tspans_to_id, idx>>

\* `for switch in switches`: the next switch, whose text elements carry `langs`
NextSwitch ==
    /\ pc = "switches"
    /\ nNodes < MaxNodes
    /\ \E langs \in SeqsUpTo(LangPool, MaxNodes - nNodes - 1) :
          /\ nNodes' = nNodes + 1 + Len(langs)
          /\ IF langs = <<>>
             THEN UNCHANGED <<pc, text_elements, ti, switch_translations,
                              default_texts, default_sequence>>
             ELSE /\ pc' = "defaults"
                  /\ text_elements' = langs
                  /\ ti' = 1
                  /\ switch_translations' = EmptyDict
                  /\ default_texts' = <<>>
                  /\ default_sequence' = <<>>
    /\ UNCHANGED <<case_insensitive, file, ret, exc, new, tspans,
                   processed_switches, system_lang, text_contents, tspans_to_id,
                   idx>>

\* first loop, a text element with systemLanguage: continue
DefaultSkip ==
    /\ pc = "defaults"
    /\ ti <= Len(text_elements)
    /\ Truthy(text_elements[ti])
    /\ ti' = ti + 1
    /\ UNCHANGED <<pc, case_insensitive, file, ret, exc, nNodes, new,
                   text_elements, tspans, switch_translations, default_texts,
                   default_sequence, processed_switches, system_lang,
                   text_contents, tspans_to_id, idx>>

\* first loop, a default text element that has tspans
DefaultTspans ==
    /\ pc = "defaults"
    /\ ti <= Len(text_elements)
    /\ ~Truthy(text_elements[ti])
    /\ \E ts \in SeqsUpTo(TspanPool, MaxNodes - nNodes) \ {<<>>} :
          /\ nNodes' = nNodes + Len(ts)
          /\ IF LookupRaises(new)
             THEN /\ exc' = "KeyError"
                  /\ pc' = "raised"
                  /\ tspans' = ts
                  /\ UNCHANGED <<new, ti, default_sequence, default_texts>>
             ELSE LET updated == SetItem(new, DefaultTspansKey,
                                     DictUpdate(Item(new, DefaultTspansKey),
                                                TspansById(ts)))
                  IN  /\ default_sequence' =
                             default_sequence \o TspanRuns(ts, case_insensitive)
                      /\ default_texts' =
                             NormalizeAll(TspanContents(ts), case_insensitive)
                      /\ new' = Seed(updated, default_texts', case_insensitive)
                      /\ ti' = ti + 1
                      /\ UNCHANGED <<pc, exc, tspans>>
    /\ UNCHANGED <<case_insensitive, file, ret,  text_elements,
                   switch_translations, processed_switches, system_lang,
                   text_contents, tspans_to_id, idx>>

\* first loop, a default text element without tspans
DefaultPlain ==
    /\ pc = "defaults"
    /\ ti <= Len(text_elements)
    /\ ~Truthy(text_elements[ti])
    /\ \E text \in TextPool :
          /\ default_sequence' =
                 default_sequence \o PlainRuns(text, case_insensitive)
          /\ default_texts' = NormalizeAll(PlainContents(text), case_insensitive)
          /\ new' = Seed(new, default_texts', case_insensitive)
          /\ ti' = ti + 1
    /\ UNCHANGED <<pc, case_insensitive, file, ret, exc, nNodes,
                   text_elements, tspans, switch_translations,
                   processed_switches, system_lang, text_contents, tspans_to_id,
                   idx>>

\* the first loop is exhausted
EndDefaults ==
    /\ pc = "defaults"
    /\ ti > Len(text_elements)
    /\ pc' = "translated"
    /\ ti' = 1
    /\ UNCHANGED <<case_insensitive, file, ret, exc, nNodes, new,
                   text_elements, tspans, switch_translations, default_texts,
                   default_sequence, processed_switches, system_lang,
                   text_contents, tspans_to_id, idx>>

\* second loop, a text element without systemLanguage: continue
TransSkip ==
    /\ pc = "translated"
    /\ ti <= Len(text_elements)
    /\ ~Truthy(text_elements[ti])
    /\ ti' = ti + 1
    /\ UNCHANGED <<pc, case_insensitive, file, ret, exc, nNodes, new,
                   text_elements, tspans, switch_translations, default_texts,
                   default_sequence, processed_switches, system_lang,
                   text_contents, tspans_to_id, idx>>

\* second loop, a translated text element that has tspans
TransTspans ==
    /\ pc = "translated"
    /\ ti <= Len(text_elements)
    /\ Truthy(text_elements[ti])
    /\ \E ts \in SeqsUpTo(TspanPool, MaxNodes - nNodes) \ {<<>>} :
          /\ nNodes' = nNodes + Len(ts)
          /\ system_lang' = text_elements[ti]
          /\ tspans_to_id' = TspansToId(ts)
          /\ text_contents' = TspanContents(ts)
          /\ switch_translations' =
                 (text_elements[ti] :> NormalizeAll(TspanContents(ts), FALSE))
                 @@ switch_translations
    /\ pc' = "runs"
    /\ idx' = 1
    /\ UNCHANGED <<case_insensitive, file, ret, exc,  new,
                   text_elements, ti, tspans, default_texts, default_sequence,
                   processed_switches>>

\* second loop, a translated text element without tspans
TransPlain ==
    /\ pc = "translated"
    /\ ti <= Len(text_elements)
    /\ Truthy(text_elements[ti])
    /\ \E text \in TextPool :
          /\ system_lang' = text_elements[ti]
          /\ tspans_to_id' = EmptyDict
          /\ text_contents' = PlainContents(text)
          /\ switch_translations' =
                 (text_elements[ti] :> NormalizeAll(PlainContents(text), FALSE))
                 @@ switch_translations
    /\ pc' = "runs"
    /\ idx' = 1
    /\ UNCHANGED <<case_insensitive, file, ret, exc, nNodes, new,
                   text_elements, ti, tspans, default_texts, default_sequence,
                   processed_switches>>

\* one iteration of `for idx, text in enumerate(text_contents)`
ProcessRun ==
    /\ pc = "runs"
    /\ idx <= Len(text_contents)
    /\ LET text == text_contents[idx]
           base_id == BaseId(tspans_to_id, text)
       IN  IF Truthy(base_id) /\ LookupRaises(new)
           THEN /\ exc' = "KeyError"
                /\ pc' = "raised"
                /\ UNCHANGED <<new, idx>>
           ELSE /\ new' = Store(new,
                                EnglishText(new, default_sequence, base_id, idx),
                                system_lang, normalize_text(text, FALSE))
                /\ idx' = idx + 1
                /\ UNCHANGED <<pc, exc>>
    /\ UNCHANGED <<case_insensitive, file, ret, nNodes, text_elements, ti,
                   tspans, switch_translations, default_texts, default_sequence,
                   processed_switches, system_lang, text_contents, tspans_to_id>>

\* the runs of the translated text element are exhausted
EndRuns ==
    /\ pc = "runs"
    /\ idx > Len(text_contents)
    /\ pc' = "translated"
    /\ ti' = ti + 1
    /\ system_lang' = None
    /\ text_contents' = <<>>
    /\ tspans_to_id' = EmptyDict
    /\ idx' = 0
    /\ UNCHANGED <<case_insensitive, file, ret, exc, nNodes,
                   new, text_elements, tspans, switch_translations,
                   default_texts, default_sequence, processed_switches>>

\* the second loop is exhausted: `if default_texts and switch_translations`
EndSwitch ==
    /\ pc = "translated"
    /\ ti > Len(text_elements)
    /\ processed_switches' =
           IF default_texts # <<>> /\ switch_translations # EmptyDict
           THEN processed_switches + 1
           ELSE processed_switches
    /\ pc' = "switches"
    /\ text_elements' = <<>>
    /\ ti' = 0
    /\ switch_translations' = EmptyDict
    /\ default_texts' = <<>>
    /\ default_sequence' = <<>>
    /\ UNCHANGED <<case_insensitive, file, ret, exc, nNodes, new, tspans,
                   system_lang, text_contents, tspans_to_id, idx>>

\* `switches` is exhausted: build the title index and return
Finish ==
    /\ pc = "switches"
    /\ ret' = Result(new)
    /\ pc' = "returned"
    /\ UNCHANGED <<case_insensitive, file, exc, nNodes, new, text_elements,
                   ti, tspans, switch_translations, default_texts,
                   default_sequence, processed_switches, system_lang,
                   text_contents, tspans_to_id, idx>>

Next ==
    \/ NotFound
    \/ ParseFail
    \/ ParseOk
    \/ NextSwitch
    \/ DefaultSkip
    \/ DefaultTspans
    \/ DefaultPlain
    \/ EndDefaults
    \/ TransSkip
    \/ TransTspans
    \/ TransPlain
    \/ ProcessRun
    \/ EndRuns
    \/ EndSwitch
    \/ Finish

Spec == Init /\ [][Next]_vars

----------------------------------------------------------------------------
(* Vocabulary of the properties *)

\* the entry of d keyed by phrase, or by its case-folded form, maps lang to value
HasEntry(d, phrase, lang, value) ==
    \E k \in {phrase, Lower(phrase)} \cap Keys(d) :
        lang \in DOMAIN Item(d, k) /\ Item(d, k)[lang] = value

\* extract() is about to process the run text_contents[idx]
AtRun == pc = "runs" /\ idx <= Len(text_contents)

\* extract() is about to collect the default text element text_elements[ti]
AtDefault ==
    pc = "defaults" /\ ti <= Len(text_elements) /\ ~Truthy(text_elements[ti])

\* base identifier of the run about to be processed
RunBaseId == BaseId(tspans_to_id, text_contents[idx])

\* the run about to be processed resolves to no default phrase
RunUnresolved ==
    /\ \/ ~Truthy(RunBaseId)
       \/ LookupRaises(new)
       \/ ~Truthy(ById(new, RunBaseId))
    /\ idx > Len(default_sequence)

\* a key longer than four characters that ends in four digits
YearKey(k) == Len(k) > 4 /\ IsDigit(Last4(k))

\* every translation ends in the four digits the key ends in
AllMatch(k, mapping) ==
    \A l \in DOMAIN mapping :
        Len(mapping[l]) >= 4 /\ Last4(mapping[l]) = Last4(k)

\* the title index holds the entry derived from the key k and its mapping
HasDerived(title, k, mapping) ==
    /\ DropLast4(k) \in DOMAIN title
    /\ DOMAIN title[DropLast4(k)] = DOMAIN mapping
    /\ \A l \in DOMAIN mapping : title[DropLast4(k)][l] = DropLast4(mapping[l])

\* extract() returned the dictionary of a parsed document
ReturnedDict == pc = "returned" /\ file = "ok"

----------------------------------------------------------------------------
(* Properties *)

\* C1: a switch whose default text has a sub-run with identifier I and
\* non-empty text D is processed (collecting it does not abort the call), and
\* a translated run of language L whose identifier has base I (verbatim or
\* case-folded) leaves the entry of D, or of D case-folded, mapping L to the
\* normalized text of the run.
C1_IdCrossReference ==
    [][ /\ (AtDefault /\ pc' = "raised")
           => ~\E i \in 1..Len(tspans') :
                  /\ Truthy(tspans'[i].id)
                  /\ Truthy(tspans'[i].text)
                  /\ Strip(tspans'[i].text) # EmptyStr
        /\ (AtRun /\ Truthy(RunBaseId))
           => \A j \in 1..Len(default_sequence) :
                  ( /\ default_sequence[j].id \in {RunBaseId, Lower(RunBaseId)}
                    /\ default_sequence[j].text # EmptyStr
                    /\ \A h \in 1..Len(default_sequence) :
                           default_sequence[h].id
                               \in {RunBaseId, Lower(RunBaseId)} => h = j )
                  => /\ pc' # "raised"
                     /\ HasEntry(new', default_sequence[j].text, system_lang,
                                 normalize_text(text_contents[idx], FALSE))
      ]_vars

\* C2: in a switch whose default runs carry no identifiers, the default runs
\* are collected (collecting them does not abort the call), and a translated
\* run of language L at a position idx below the number of default runs, whose
\* text matches no identifier, leaves the entry of default_sequence[idx].text,
\* or of its case-folded form, mapping L to the normalized text of the run.
C2_PositionalFallback ==
    [][ /\ (AtDefault /\ pc' = "raised")
           => ~ /\ \A j \in 1..Len(default_sequence) :
                       default_sequence[j].id = None
                /\ \A i \in 1..Len(tspans') : tspans'[i].id = None
                /\ \E i \in 1..Len(tspans') :
                       /\ Truthy(tspans'[i].text)
                       /\ Strip(tspans'[i].text) # EmptyStr
        /\ ( /\ AtRun
             /\ ~Truthy(RunBaseId)
             /\ idx <= Len(default_sequence)
             /\ \A j \in 1..Len(default_sequence) : default_sequence[j].id = None
             /\ default_sequence[idx].text # EmptyStr )
           => HasEntry(new', default_sequence[idx].text, system_lang,
                       normalize_text(text_contents[idx], FALSE))
      ]_vars

\* C3: on a document that parses, no exception escapes extract(), and the
\* value it returns is a dictionary that has the title index.
C3_AnomaliesNonFatal ==
    file = "ok" =>
        /\ exc = ""
        /\ pc # "raised"
        /\ pc = "returned" => ret.type = "dict" /\ "title" \in ret.keys

\* C4: the empty string is never a key of translations["new"].
C4_NoEmptyKey == EmptyStr \notin Keys(new)

\* C5: when no default text with non-empty trimmed text was collected (every
\* key of translations["new"] comes from a default text, so: when it has no
\* non-empty key), the returned dictionary has no "new" entry and its "title"
\* entry is the empty mapping.
C5_OmittedWhenNoPhrase ==
    (ReturnedDict /\ \A k \in Keys(new) : k = EmptyStr)
        => /\ ret.keys = {"title"}
           /\ ret.title = EmptyDict

\* C6 (as stated): in the returned dictionary, for every key K of "new" longer
\* than four characters that ends in four digits, the title index holds the
\* entry derived from K exactly when every translation of K ends in the four
\* digits of K; every title entry comes from such a key; "new" is returned as
\* it was.
C6_TitleIffAllMatch ==
    ReturnedDict =>
        /\ ret.new = new
        /\ \A i \in 1..Len(new) :
               YearKey(new[i].key)
                   => (HasDerived(ret.title, new[i].key, new[i].val)
                          <=> AllMatch(new[i].key, new[i].val))
        /\ \A p \in DOMAIN ret.title :
               \E i \in 1..Len(new) :
                   YearKey(new[i].key) /\ DropLast4(new[i].key) = p

\* C6 (amended): as above, except that of the keys that share one year-stripped
\* prefix only the last one (in insertion order) whose translations all match
\* is found in the title index, and a key whose translations do not all match
\* has no title entry when no key with its prefix has matching translations.
C6_TitleOfLastMatching ==
    ReturnedDict =>
        /\ ret.new = new
        /\ \A i \in 1..Len(new) :
               LET k == new[i].key
                   same(j) == /\ YearKey(new[j].key)
                              /\ DropLast4(new[j].key) = DropLast4(k)
                              /\ AllMatch(new[j].key, new[j].val)
               IN  YearKey(k) =>
                     /\ (AllMatch(k, new[i].val)
                           /\ ~\E j \in (i + 1)..Len(new) : same(j))
                        => HasDerived(ret.title, k, new[i].val)
                     /\ (~\E j \in 1..Len(new) : same(j))
                        => DropLast4(k) \notin DOMAIN ret.title
        /\ \A p \in DOMAIN ret.title :
               \E i \in 1..Len(new) :
                   /\ YearKey(new[i].key)
                   /\ DropLast4(new[i].key) = p
                   /\ AllMatch(new[i].key, new[i].val)

\* returned: a year key with two translations, found in the title index
C6_Witness ==
    /\ ReturnedDict
    /\ \E i \in 1..Len(new) :
           /\ YearKey(new[i].key)
           /\ Cardinality(DOMAIN new[i].val) = 2
           /\ AllMatch(new[i].key, new[i].val)
           /\ HasDerived(ret.title, new[i].key, new[i].val)

\* C7 (as stated): the value returned for a missing path is not the value
\* returned for a file that does not parse, and neither is a dictionary.
C7_FailuresDistinguished ==
    pc = "returned" =>
        /\ file = "missing" => ret # ParseErrorResult /\ ret.type # "dict"
        /\ file = "malformed" => ret # NotFoundResult /\ ret.type # "dict"

\* C7 (amended): a missing path and a file that does not parse both return
\* None, which no call on a parsed document returns; no exception escapes and
\* no index is returned.
C7_FailureReturnsNone ==
    /\ file \in {"missing", "malformed"}
          => pc = "returned" /\ exc = "" /\ ret = [type |-> "NoneType"]
    /\ ReturnedDict => ret.type = "dict" /\ "title" \in ret.keys

\* extract() returned on a file that does not parse
C7_Witness == pc = "returned" /\ file = "malformed" /\ ret.type = "NoneType"

\* C8: collecting a default text element does not abort the call when the
\* element has a sub-run with non-empty text, and once it is collected every
\* non-empty normalized phrase of it, or its case-folded form, is a key of
\* translations["new"].
C8_SeedingCoverage ==
    [][ AtDefault =>
          /\ pc' = "raised"
                => ~\E i \in 1..Len(tspans') :
                       /\ Truthy(tspans'[i].text)
                       /\ Strip(tspans'[i].text) # EmptyStr
          /\ pc' # "raised"
                => \A i \in 1..Len(default_texts') :
                       default_texts'[i] # EmptyStr
                           => \/ default_texts'[i] \in Keys(new')
                              \/ Lower(default_texts'[i]) \in Keys(new')
      ]_vars

\* C9: no step removes a key of translations["new"] or a language code of one
\* of its entries; a step changes the value of a (key, language code) pair
\* only when it processes a run of that language.
C9_NeverShrinks ==
    [][ \A i \in 1..Len(new) :
            \E j \in 1..Len(new') :
                /\ new'[j].key = new[i].key
                /\ DOMAIN new[i].val \subseteq DOMAIN new'[j].val
                /\ \A l \in DOMAIN new[i].val :
                       new'[j].val[l] # new[i].val[l]
                           => \/ AtRun /\ l = system_lang
                              \/ AtDefault /\ new[i].key = DefaultTspansKey
      ]_vars

\* a later switch has seeded again a key that already had translations
C9_Witness ==
    /\ pc = "translated"
    /\ switch_translations = EmptyDict
    /\ \E i \in 1..Len(default_texts) :
           /\ SeedKey(default_texts[i], case_insensitive) \in Keys(new)
           /\ DOMAIN Item(new, SeedKey(default_texts[i], case_insensitive)) # {}

\* C10: a run that resolves to no default phrase (no identifier of it resolves
\* and its position is not below the number of default runs), or that resolves
\* to a phrase that is no key of translations["new"], is skipped: the loop
\* goes on to the next run and translations["new"] is as it was.
C10_UnresolvedRunSkipped ==
    [][ ( /\ AtRun
          /\ \/ RunUnresolved
             \/ /\ ~LookupRaises(new) \/ ~Truthy(RunBaseId)
                /\ LET e == EnglishText(new, default_sequence, RunBaseId, idx)
                   IN  Truthy(e) /\ {e, Lower(e)} \cap Keys(new) = {} )
        => /\ new' = new
           /\ pc' = "runs"
           /\ idx' = idx + 1
      ]_vars

====
